---- MODULE Spec2Model ----
(***************************************************************************)
(* Model of the chat client's WebSocket session manager                    *)
(* (src/services/websocket.ts, class ChatWebSocketService), of the React   *)
(* hook that observes it (src/hooks/useWebSocket.ts) and of the send       *)
(* mutation built on both (useSendMessage).                                *)
(*                                                                         *)
(* JavaScript runs every handler to completion, so each action below is    *)
(* one whole handler: a public method call, a socket event, or a timer     *)
(* callback.  The handlers are written as operators over a record of the   *)
(* service's fields so that a handler can call another one (onclose calls  *)
(* scheduleReconnect, which calls emit, which runs the hook's listeners).  *)
(***************************************************************************)
EXTENDS Integers, Sequences, FiniteSets, TLC

\* ------------------------------------------------------------------ bounds
MaxSockets == 3          \* sockets the service may create in one run of Spec
MaxRetrySockets == 7     \* sockets the service may create in one run of SpecRetry
MaxQueue == 2            \* payloads sendMessage may hold in messageQueue
MaxTimers == 2           \* reconnect timers that may be pending at once
MaxClock == 1            \* last reading of the millisecond clock (Date.now())
MaxInboundSockets == 1   \* sockets the service may create in one run of SpecInbound
MaxAdds == 1             \* addMessage calls per chat in one run of SpecCache
MaxList == 2             \* messages a chat's cached list may hold in SpecCache
MaxSends == 2            \* sendMessage calls of the chat screen in one run of SpecSend
MaxSendList == 3         \* messages the cached list may hold in SpecSend
MaxSwitchSockets == 1    \* sockets the service may create in one run of SpecSwitch
MaxSharedSockets == 3    \* sockets the service may create in one run of SpecShared
MaxLogoutSockets == 2    \* sockets the service may create in one run of SpecLogout
MaxUrlLen == 3           \* parts of a configured API base URL in SpecUrl
MaxUrlSockets == 2       \* sockets the service may create in one run of SpecUrl

\* ------------------------------------------------------- program constants
maxReconnectAttempts == 5
reconnectDelay == 1000
CLOSE_NORMAL == 1000
CLOSE_ABNORMAL == 1006   \* a close code other than 1000: the connection was lost

\* ------------------------------------------------------------- value sets
NoChat == "null"         \* currentChatId === null
NoToken == "null"        \* token === null
NoSocket == 0            \* ws === null
DefaultChat == "default"
ChatIds == {"c1", "c2"}
Tokens == {"t1"}
SecondToken == "t2"      \* the token of a user who logs in after a logout
UserTexts == {"hi"}
Hooks == {"h1"}
Instances == {"h1", "h2"}   \* the components that may use useWebSocketConnection
JoinChatIds == {"c2"}    \* the chats the user opens
CloseCodes == {CLOSE_NORMAL, CLOSE_ABNORMAL}

\* A reply text is a sequence of words; the empty sequence is the empty string.
WelcomeMarkers ==
  { <<"Connected", "to", "chat">>, <<"connected">>, <<"welcome">>, <<"ready">> }
ReplyTexts == { <<>>, <<"Connected", "to", "chat">>, <<"Hello">> }

\* String.prototype.includes on word sequences: marker is a contiguous part of text.
Includes(text, marker) ==
  \E i \in 0..(Len(text) - Len(marker)) :
     \A j \in 1..Len(marker) : text[i + j] = marker[j]

\* Message ids are a prefix and a clock reading: Date.now().toString(),
\* `temp-${Date.now()}`, `msg_${Date.now()}`.
Id(prefix, n) == [ p |-> prefix, n |-> n ]

\* An inbound JSON payload of the reply protocol or of the legacy protocol.
\* hasReply = FALSE stands for an absent reply field (reply is then <<>>),
\* chatId = NoChat for an absent chatId, type = "none" for an absent type.
\* payload is the ChatMessage of a legacy 'message' payload.
LegacyTypes == {"message", "typing", "user_joined", "user_left", "error"}
Inbound(hasReply, reply, error, chatId, type, payload) ==
  [ hasReply |-> hasReply, reply |-> reply, error |-> error, chatId |-> chatId,
    type |-> type, payload |-> payload ]
NoPayload == [ id |-> Id("", 0), chatId |-> NoChat, content |-> <<>>, type |-> "none" ]
ReplyData ==
  { Inbound(TRUE, r, e, c, "none", NoPayload) :
      r \in {<<>>} \cup { <<t>> : t \in ReplyTexts }, e \in BOOLEAN,
      c \in ChatIds \cup {NoChat} }
\* Types outside the protocol: an absent type and a type that happens to be
\* the name of one of the service's own events.
UnknownTypes == {"none", "disconnected"}
\* The ChatMessage payloads of legacy 'message' payloads.
MessagePayloads ==
  { [ id |-> Id("m", 0), chatId |-> "c1", content |-> <<"Hello">>, type |-> "user" ] }
LegacyData ==
  { Inbound(FALSE, <<>>, FALSE, NoChat, ty, NoPayload) : ty \in LegacyTypes \cup UnknownTypes }
    \cup { Inbound(FALSE, <<>>, FALSE, NoChat, "message", p) : p \in MessagePayloads }
InboundData == ReplyData \cup LegacyData
\* The payloads a server sends while a session is being set up: a welcome with
\* or without a chat id.
SessionInbound ==
  { d \in ReplyData :
      /\ d.reply = << <<"Connected", "to", "chat">> >>
      /\ d.chatId \in {NoChat, "c1"} }

\* The payloads sendTyping hands to sendMessage.
TypingMessages == [ type : {"typing"}, chatId : JoinChatIds, isTyping : BOOLEAN ]

\* Frames as written to a socket by JSON.stringify: the kind tells the three
\* shapes of object apart, so two frames are equal exactly when their JSON is.
AuthFrame(tok, chat) == [ kind |-> "auth", chatId |-> chat, text |-> tok ]
SimpleFrame(msg, chat) == [ kind |-> "simple", chatId |-> chat, text |-> msg ]
QueuedFrame(m) ==
  [ kind |-> m.type, chatId |-> m.chatId,
    text |-> IF m.isTyping THEN "true" ELSE "false" ]

Event(name, n) == [ ev |-> name, n |-> n ]

\* A URL is the sequence of its parts; the empty sequence is the empty string.
\* A scheme may stand anywhere in the text, the regular expression of connect()
\* is anchored at its start.
UrlParts == {"http://", "https://", "localhost:8001", "/api"}
ApiUrls == UNION { [1..n -> UrlParts] : n \in 1..MaxUrlLen }
DefaultApiUrl == <<"http://", "localhost:8001">>
\* apiUrl.replace(/^https?:\/\//, 'ws://') + '/ws/chat'
WsUrlOf(apiUrl) ==
  (IF Len(apiUrl) > 0 /\ apiUrl[1] \in {"http://", "https://"}
   THEN <<"ws://">> \o Tail(apiUrl)
   ELSE apiUrl) \o <<"/ws/chat">>

\* ---- values of the chat cache hooks (useChatCache.ts)
\* An optional value: undefined / null, or a value.
None == <<>>
Some(x) == <<x>>
OrEmpty(o) == IF o = None THEN <<>> ELSE o[1]

\* Message ids as their template strings build them: the parts in order.
\* `optimistic-${chatId}-${Date.now()}-${counter}` and `ai-${chatId}-${Date.now()}`.
NoId == [ p |-> "none", chat |-> NoChat, n |-> 0, k |-> 0 ]
OptimisticId(c, n, k) == [ p |-> "optimistic", chat |-> c, n |-> n, k |-> k ]
AiId(c, n) == [ p |-> "ai", chat |-> c, n |-> n, k |-> 0 ]
ServerIds == { [ p |-> "server", chat |-> NoChat, n |-> 0, k |-> 0 ] }

\* The argument of addMessage: a ChatMessage without id.
NewUserMessage(text) ==
  [ id |-> NoId, text |-> text, isUser |-> TRUE, status |-> "sending", localId |-> NoId ]
ChatMetadataOf(c) == [ id |-> c, title |-> "New Chat" ]
\* What an earlier run of the application may have left in storage.
StoredMessage ==
  [ id |-> [ p |-> "server", chat |-> NoChat, n |-> 0, k |-> 1 ], text |-> "old",
    isUser |-> TRUE, status |-> "sent", localId |-> NoId ]
PersistedLists == { None, Some(<< ChatMetadataOf("c1"), ChatMetadataOf("c2") >>) }
PersistedMessages == [ ChatIds -> { None, Some(<< StoredMessage >>) } ]
UpdateStatuses == {"sent", "failed"}
OpenChats == {"c1"}      \* the chats whose screen is open

\* The hooks' state when the application starts.
NoCall == [ op |-> "none", chat |-> NoChat, id |-> NoId, status |-> "none",
            serverId |-> NoId, result |-> NewUserMessage("") ]
NewCalls ==
  [ counter |-> [c \in ChatIds |-> 0], pending |-> [c \in ChatIds |-> None],
    deleting |-> {}, known |-> {}, last |-> NoCall ]
\* The fetch of a messages query: not running, or running with the value its
\* queryFn read from storage.
NoFetch == [ status |-> "idle", data |-> None ]
NewQueries ==
  [ list |-> None, messages |-> [c \in ChatIds |-> None],
    fetch |-> [c \in ChatIds |-> NoFetch] ]

VARIABLES
  ws,                \* this.ws: index of the current socket, NoSocket for null
  readyState,        \* readyState of every socket created so far, by index
  isConnecting,      \* this.isConnecting
  isServerReady,     \* this.isServerReady
  reconnectAttempts, \* this.reconnectAttempts
  token,             \* this.token
  queryClient,       \* this.queryClient !== null
  messageQueue,      \* this.messageQueue
  currentChatId,     \* this.currentChatId
  reconnectTimers,   \* number of pending setTimeout callbacks of scheduleReconnect
  timeoutArmed,      \* sockets whose connectionTimeout is still pending
  authed,            \* open sockets on which the server received an authentication frame
  hooks,             \* state of each useWebSocketConnection instance
  cache,             \* query cache entries ['chat', id]: <<>> or <<chat>>
  chats,             \* query cache entry ['chats']: <<>> or <<list of chats>>
  clock,             \* Date.now()
  apiUrl,            \* Config.apiUrl
  wsUrl,             \* url of the WebSocket created last, <<>> before the first
  queries,           \* query cache of useChatCache: the chat list and each chat's messages
  storage,           \* persistent storage: chats_list, chat_messages_*, chat_metadata_*
  calls,             \* the hooks' own state: counters, pending calls, values returned
  sent,              \* frames transmitted by the last step, in order
  emitted,           \* events emitted by the last step, in order
  scheduled,         \* delays of the reconnect timers armed by the last step
  lastOp             \* the handler the last step ran

vars ==
  << ws, readyState, isConnecting, isServerReady, reconnectAttempts, token,
     queryClient, messageQueue, currentChatId, reconnectTimers, timeoutArmed,
     authed, hooks, cache, chats, clock, apiUrl, wsUrl, queries, storage, calls,
     sent, emitted, scheduled, lastOp >>

\* The fields a handler reads and writes, gathered into one record.
Cur ==
  [ ws |-> ws, readyState |-> readyState, isConnecting |-> isConnecting,
    isServerReady |-> isServerReady, reconnectAttempts |-> reconnectAttempts,
    token |-> token, queryClient |-> queryClient, messageQueue |-> messageQueue,
    currentChatId |-> currentChatId, reconnectTimers |-> reconnectTimers,
    timeoutArmed |-> timeoutArmed, authed |-> authed, hooks |-> hooks, cache |-> cache,
    chats |-> chats, clock |-> clock, apiUrl |-> apiUrl, wsUrl |-> wsUrl,
    queries |-> queries, storage |-> storage, calls |-> calls,
    sent |-> <<>>, emitted |-> <<>>, scheduled |-> <<>> ]

StateOf(s, k) == IF k = NoSocket THEN "NONE" ELSE s.readyState[k]

\* ------------------------------------------------ the WebSocket object
\* WebSocket.send: the frame is transmitted on an OPEN socket. On a CONNECTING
\* socket (or a null reference) the call throws, on a CLOSING or CLOSED socket
\* the data is discarded; in the handlers below nothing follows the call, so
\* both leave the service as it was.
send(s, k, frame) ==
  IF StateOf(s, k) = "OPEN"
  THEN [s EXCEPT !.sent = Append(@, [sock |-> k, frame |-> frame]),
                 !.authed = IF frame.kind = "auth" THEN @ \cup {k} ELSE @]
  ELSE s

\* WebSocket.close: a CONNECTING or OPEN socket starts closing; its close event
\* follows in a later task.
close(s, k) ==
  IF StateOf(s, k) \in {"CONNECTING", "OPEN"}
  THEN [s EXCEPT !.readyState[k] = "CLOSING", !.authed = @ \ {k}]
  ELSE s

\* ------------------------------------- useWebSocketConnection's listeners
handleConnected(h) ==
  [h EXCEPT !.status = "connected", !.reconnectAttempts = 0, !.isServerReady = TRUE]

handleDisconnected(h) ==
  [h EXCEPT !.status = "disconnected", !.isServerReady = FALSE]

handleError(h) ==
  [h EXCEPT !.status = "error", !.isServerReady = FALSE]

handleMaxReconnectAttempts(h, attempts) ==
  [h EXCEPT !.status = "error", !.reconnectAttempts = attempts,
            !.isServerReady = FALSE]

handleReconnectAttempt(h, attempt) ==
  [h EXCEPT !.status = "connecting", !.reconnectAttempts = attempt,
            !.isServerReady = FALSE]

Listener(h, e) ==
  CASE e.ev = "connected" -> handleConnected(h)
    [] e.ev = "disconnected" -> handleDisconnected(h)
    [] e.ev = "error" -> handleError(h)
    [] e.ev = "max_reconnect_attempts_reached" -> handleMaxReconnectAttempts(h, e.n)
    [] e.ev = "reconnect_attempt" -> handleReconnectAttempt(h, e.n)
    [] OTHER -> h

\* ------------------------------------------------ ChatWebSocketService
\* emit: every registered listener of the event runs, synchronously.
emit(s, e) ==
  [s EXCEPT !.emitted = Append(@, e),
            !.hooks = [h \in Instances |->
                         IF s.hooks[h].listening THEN Listener(s.hooks[h], e)
                         ELSE s.hooks[h]]]

initialize(s, tok) == [s EXCEPT !.queryClient = TRUE, !.token = tok]

\* new WebSocket(wsUrl) with the configured URL does not throw, so the catch
\* branch of connect() is not taken.
connect(s) ==
  IF s.isConnecting \/ StateOf(s, s.ws) = "OPEN" THEN s
  ELSE IF s.token = NoToken THEN s
  ELSE LET k == Len(s.readyState) + 1
       IN [s EXCEPT !.isConnecting = TRUE,
                    !.readyState = Append(@, "CONNECTING"),
                    !.ws = k,
                    !.wsUrl = WsUrlOf(s.apiUrl),
                    !.timeoutArmed = @ \cup {k}]

disconnect(s) ==
  LET s1 == [s EXCEPT !.reconnectAttempts = 0, !.isConnecting = FALSE,
                      !.isServerReady = FALSE]
      s2 == IF s1.ws # NoSocket THEN [close(s1, s1.ws) EXCEPT !.ws = NoSocket]
            ELSE s1
  IN [s2 EXCEPT !.currentChatId = NoChat]

joinChat(s, chatId) ==
  LET s1 == [s EXCEPT !.currentChatId = chatId]
  IN IF StateOf(s1, s1.ws) = "OPEN" /\ s1.isServerReady
     THEN send(s1, s1.ws, AuthFrame(s1.token, chatId))
     ELSE connect(s1)

leaveChat(s) ==
  IF s.currentChatId # NoChat
  THEN [s EXCEPT !.currentChatId = NoChat, !.isServerReady = FALSE]
  ELSE s

OrDefault(chatId) == IF chatId = NoChat THEN DefaultChat ELSE chatId

\* sendSimpleMessage returns void on every path: the caller cannot tell a
\* transmitted message from one that was only logged.
sendSimpleMessage(s, message) ==
  IF ~s.isServerReady THEN s
  ELSE IF StateOf(s, s.ws) = "OPEN"
       THEN send(s, s.ws, SimpleFrame(message, OrDefault(s.currentChatId)))
       ELSE s

sendMessage(s, message) ==
  IF StateOf(s, s.ws) = "OPEN"
  THEN send(s, s.ws, QueuedFrame(message))
  ELSE [s EXCEPT !.messageQueue = Append(@, message)]

sendTyping(s, chatId, isTyping) ==
  sendMessage(s, [type |-> "typing", chatId |-> chatId, isTyping |-> isTyping])

getConnectionStatus(s) ==
  IF s.isConnecting THEN "connecting"
  ELSE IF s.ws # NoSocket
       THEN CASE StateOf(s, s.ws) = "OPEN" ->
                   IF s.isServerReady THEN "connected" ELSE "connecting"
              [] StateOf(s, s.ws) = "CONNECTING" -> "connecting"
              [] OTHER -> "disconnected"
       ELSE "disconnected"

isReadyToSend(s) == StateOf(s, s.ws) = "OPEN" /\ s.isServerReady

\* messageQueue.forEach: each payload is sent if the socket is open.
RECURSIVE flushFrom(_, _)
flushFrom(s, q) ==
  IF q = <<>> THEN s
  ELSE flushFrom(send(s, s.ws, QueuedFrame(Head(q))), Tail(q))

Reverse(q) == [i \in 1..Len(q) |-> q[Len(q) + 1 - i]]

\* A flush that walks the queue from its newest payload.
flushMessageQueueNewestFirst(s) ==
  IF Len(s.messageQueue) > 0
  THEN [flushFrom(s, Reverse(s.messageQueue)) EXCEPT !.messageQueue = <<>>]
  ELSE s

flushMessageQueue(s) ==
  IF Len(s.messageQueue) > 0
  THEN [flushFrom(s, s.messageQueue) EXCEPT !.messageQueue = <<>>]
  ELSE s

RECURSIVE Pow2(_)
Pow2(n) == IF n = 0 THEN 1 ELSE 2 * Pow2(n - 1)

scheduleReconnect(s) ==
  IF s.reconnectAttempts >= maxReconnectAttempts
  THEN emit(s, Event("max_reconnect_attempts_reached", s.reconnectAttempts))
  ELSE LET delay == reconnectDelay * Pow2(s.reconnectAttempts)
           s1 == [s EXCEPT !.reconnectAttempts = @ + 1,
                           !.scheduled = Append(@, delay)]
           s2 == emit(s1, Event("reconnect_attempt", s1.reconnectAttempts))
       IN [s2 EXCEPT !.reconnectTimers = @ + 1]

\* A merge that appends whether or not the id is already in the list.
handleIncomingMessageAlwaysAppends(s, message) ==
  IF ~s.queryClient THEN s
  ELSE
    LET newMessage == [ id |-> message.id, content |-> message.content,
                        role |-> message.type, chatId |-> message.chatId ]
        old == s.cache[message.chatId]
    IN [s EXCEPT !.cache[message.chatId] =
          IF old = <<>>
          THEN << [ id |-> message.chatId, title |-> message.content,
                    lastMessage |-> message.content, messages |-> <<newMessage>> ] >>
          ELSE << [old[1] EXCEPT !.messages = Append(@, newMessage),
                                 !.lastMessage = message.content] >>]

\* handleIncomingMessage: merge into ['chat', chatId], then refresh ['chats'].
\* Every text of the model is shorter than 50 characters, so the title of a
\* synthesized chat is the content itself.
handleIncomingMessage(s, message) ==
  IF ~s.queryClient THEN s
  ELSE
    LET newMessage == [ id |-> message.id, content |-> message.content,
                        role |-> message.type, chatId |-> message.chatId ]
        old == s.cache[message.chatId]
        merged ==
          IF old = <<>>
          THEN << [ id |-> message.chatId, title |-> message.content,
                    lastMessage |-> message.content,
                    messages |-> <<newMessage>> ] >>
          ELSE IF \E i \in 1..Len(old[1].messages) : old[1].messages[i].id = message.id
               THEN old
               ELSE << [old[1] EXCEPT !.messages = Append(@, newMessage),
                                      !.lastMessage = message.content] >>
        list ==
          IF s.chats = <<>> THEN s.chats
          ELSE << [i \in 1..Len(s.chats[1]) |->
                     IF s.chats[1][i].id = message.chatId
                     THEN [s.chats[1][i] EXCEPT !.lastMessage = message.content]
                     ELSE s.chats[1][i]] >>
    IN [s EXCEPT !.cache[message.chatId] = merged, !.chats = list]

handleTypingStatus(s, status) == emit(s, Event("typing_update", 0))

handleUserPresence(s, message) == emit(s, Event("presence_update", 0))

\* With a query client and no payload, handleIncomingMessage throws on
\* message.id; the exception ends handleWebSocketMessage and is caught by
\* onmessage.
handleWebSocketMessage(s, message) ==
  IF message.type = "message" /\ message.payload = NoPayload /\ s.queryClient THEN s
  ELSE
  LET s1 ==
        CASE message.type = "message" /\ ~s.queryClient -> s
          [] message.type = "message" -> handleIncomingMessage(s, message.payload)
          [] message.type = "typing" -> handleTypingStatus(s, message.payload)
          [] message.type \in {"user_joined", "user_left"} -> handleUserPresence(s, message)
          [] message.type = "error" -> emit(s, Event("error", 0))
          [] OTHER -> s
  IN emit(s1, Event(message.type, 0))

isWelcomeMessage(messageText) ==
  /\ messageText # <<>>
  /\ \E m \in WelcomeMarkers : Includes(messageText, m)

onopen(s) ==
  LET s1 == [s EXCEPT !.isConnecting = FALSE, !.reconnectAttempts = 0,
                      !.isServerReady = FALSE]
  IN IF s1.token # NoToken
     THEN send(s1, s1.ws, AuthFrame(s1.token, OrDefault(s1.currentChatId)))
     ELSE s1

\* A welcome branch that keeps the chat id the client chose.
welcomeKeepsChatId(s, data) ==
  flushMessageQueue(emit([s EXCEPT !.isServerReady = TRUE], Event("connected", 0)))

\* The welcome branch of onmessage.
welcome(s, data) ==
  LET s1 == [s EXCEPT !.isServerReady = TRUE]
      s2 == IF data.chatId # NoChat
            THEN [s1 EXCEPT !.currentChatId = data.chatId] ELSE s1
      s3 == emit(s2, Event("connected", 0))
  IN flushMessageQueue(s3)

\* onmessage for a payload that JSON.parse accepted; url is the chatId of
\* window.location.search, NoChat when there is none.
onmessage(s, data, url) ==
  LET messageText == IF data.hasReply /\ Len(data.reply) > 0 THEN data.reply[1] ELSE <<>>
  IN
  IF isWelcomeMessage(messageText)
  THEN welcome(s, data)
  ELSE IF data.hasReply \/ data.error
  THEN IF data.error /\ data.hasReply /\ Len(data.reply) > 0
       THEN emit(s, Event("error", 0))
       ELSE IF data.hasReply /\ Len(data.reply) > 0
       THEN LET c1 == IF data.chatId # NoChat THEN data.chatId ELSE s.currentChatId
                c2 == IF c1 = NoChat /\ url # NoChat THEN url ELSE c1
                activeChatId == OrDefault(c2)
            IN handleIncomingMessage(s,
                 [ id |-> Id("", s.clock), chatId |-> activeChatId,
                   content |-> data.reply[1], type |-> "assistant" ])
       ELSE s
  ELSE handleWebSocketMessage(s, data)

onclose(s, code) ==
  LET s1 == [s EXCEPT !.isConnecting = FALSE, !.isServerReady = FALSE]
      s2 == IF code # CLOSE_NORMAL THEN scheduleReconnect(s1) ELSE s1
  IN emit(s2, Event("disconnected", code))

onerror(s) ==
  LET s1 == [s EXCEPT !.isConnecting = FALSE, !.isServerReady = FALSE]
  IN emit(s1, Event("error", s1.reconnectAttempts + 1))

\* The callback of connect()'s setTimeout: it looks at this.ws as it is when
\* the timer fires.
connectionTimeout(s) ==
  IF StateOf(s, s.ws) = "CONNECTING"
  THEN scheduleReconnect([close(s, s.ws) EXCEPT !.isConnecting = FALSE])
  ELSE s

\* The callback of scheduleReconnect()'s setTimeout.
reconnectTimer(s) ==
  IF s.ws = NoSocket \/ StateOf(s, s.ws) = "CLOSED" THEN connect(s) ELSE s

\* ------------------------------------------- useWebSocketConnection
NewHook ==
  [ mounted |-> FALSE, listening |-> FALSE, status |-> "disconnected",
    reconnectAttempts |-> 0, isServerReady |-> FALSE, previousChatId |-> NoChat ]

\* The effect of an authenticated instance: initialize, register the
\* listeners, report 'connecting', connect.
hookEffect(s, h, tok) ==
  LET s1 == initialize(s, tok)
      s2 == [s1 EXCEPT !.hooks[h] =
               [NewHook EXCEPT !.mounted = TRUE, !.listening = TRUE,
                               !.status = "connecting"]]
  IN connect(s2)

\* The effect's cleanup: remove the listeners, disconnect the shared service.
hookCleanup(s, h) ==
  disconnect([s EXCEPT !.hooks[h] = NewHook])

\* The effect of an instance rendered without authentication.
hookEffectUnauthenticated(s, h) ==
  LET s1 == disconnect(s)
  IN [s1 EXCEPT !.hooks[h] = [NewHook EXCEPT !.mounted = TRUE]]

hookReconnect(s, h) ==
  connect([s EXCEPT !.hooks[h].status = "connecting",
                    !.hooks[h].reconnectAttempts = 0,
                    !.hooks[h].isServerReady = FALSE])

hookIsConnected(s, h) == s.hooks[h].status = "connected"

hookIsReadyToSend(s, h) == s.hooks[h].status = "connected" /\ s.hooks[h].isServerReady

\* useChatRoom's effect for a chat other than previousChatId.current: the
\* previous chat is left, the new one joined.
chatRoomEffect(s, h, chatId) ==
  LET s1 == IF s.hooks[h].previousChatId # NoChat THEN leaveChat(s) ELSE s
  IN [joinChat(s1, chatId) EXCEPT !.hooks[h].previousChatId = chatId]

\* useChatRoom's cleanup, set up by a render that saw isConnected.
chatRoomCleanup(s, h) ==
  IF s.hooks[h].previousChatId # NoChat
  THEN [leaveChat(s) EXCEPT !.hooks[h].previousChatId = NoChat]
  ELSE s

\* useSendMessage's mutationFn followed by onSuccess. Neither joinChat nor
\* sendSimpleMessage throws, so the catch branch is not taken and the
\* mutation succeeds whenever the hook reported 'connected'.
IsTemp(id) == id.p = "temp-"

useSendMessageSuccess(s, chatId, content) ==
  LET tempMessage == [ id |-> Id("temp-", s.clock), content |-> <<content>>,
                       role |-> "user", chatId |-> chatId ]
      s1 == IF s.cache[chatId] = <<>> THEN s
            ELSE [s EXCEPT !.cache[chatId][1].messages = Append(@, tempMessage)]
      s2 == sendSimpleMessage(joinChat(s1, chatId), content)
      newMessage == [ id |-> Id("msg_", s.clock), content |-> <<content>>,
                      role |-> "user", chatId |-> chatId ]
      old == s2.cache[chatId]
      filtered == IF old = <<>> THEN <<>>
                  ELSE SelectSeq(old[1].messages, LAMBDA m : ~IsTemp(m.id))
  IN IF old = <<>> THEN s2
     ELSE IF \E i \in 1..Len(filtered) : filtered[i].id = newMessage.id
          THEN [s2 EXCEPT !.cache[chatId][1].messages = filtered]
          ELSE [s2 EXCEPT !.cache[chatId][1].messages = Append(filtered, newMessage),
                          !.cache[chatId][1].lastMessage = <<content>>]

\* ------------------------------------------------------ useChatList
\* The list query's queryFn has resolved.
loadChatList(s) == [s EXCEPT !.queries.list = Some(OrEmpty(s.storage.list))]

updateChatsList(s, list) ==
  [s EXCEPT !.queries.list = Some(list), !.storage.list = Some(list)]

addChat(s, metadata) ==
  updateChatsList(s, <<metadata>> \o OrEmpty(s.queries.list))

\* deleteChat up to the end of updateChatsList.
deleteChatList(s, chatId) ==
  LET updatedChats == SelectSeq(OrEmpty(s.queries.list), LAMBDA chat : chat.id # chatId)
  IN [updateChatsList(s, updatedChats) EXCEPT !.calls.deleting = @ \cup {chatId}]

\* A variant of deleteChat that leaves the persisted messages in place.
deleteChatCleanupKeepsStorage(s, chatId) ==
  [s EXCEPT !.queries.messages[chatId] = None,
            !.storage.metadata[chatId] = None,
            !.calls.deleting = @ \ {chatId},
            !.calls.last = [NoCall EXCEPT !.op = "deleteChat", !.chat = chatId]]

\* deleteChat after updateChatsList: removeQueries, then the storage entries.
deleteChatCleanup(s, chatId) ==
  [s EXCEPT !.queries.messages[chatId] = None,
            !.storage.messages[chatId] = None,
            !.storage.metadata[chatId] = None,
            !.calls.deleting = @ \ {chatId},
            !.calls.last = [NoCall EXCEPT !.op = "deleteChat", !.chat = chatId]]

\* ---------------------------------------------------- useChatMessages
\* The messages query starts its fetch: queryFn asks storage for the list.
fetchMessages(s, chatId) ==
  [s EXCEPT !.queries.fetch[chatId] =
              [ status |-> "fetching", data |-> s.storage.messages[chatId] ]]

\* The fetch resolves: what queryFn returns becomes the query's data.
resolveMessages(s, chatId) ==
  [s EXCEPT !.queries.messages[chatId] = Some(OrEmpty(s.queries.fetch[chatId].data)),
            !.queries.fetch[chatId] = NoFetch]

\* The messages query's queryFn has resolved.
loadMessages(s, chatId) ==
  [s EXCEPT !.queries.messages[chatId] = Some(OrEmpty(s.storage.messages[chatId]))]

\* A variant of onMutate that replaces the cached list by the new message.
addMessageOnMutateDropsPrevious(s, chatId, newMessage) ==
  LET previousMessages == OrEmpty(s.queries.messages[chatId])
      counter == s.calls.counter[chatId] + 1
      optimisticId == OptimisticId(chatId, s.clock, counter)
      messageWithId == [newMessage EXCEPT !.id = optimisticId, !.status = "sending",
                                          !.localId = optimisticId]
  IN [s EXCEPT !.calls.counter[chatId] = counter,
               !.queries.fetch[chatId] = NoFetch,
               !.queries.messages[chatId] = Some(<<messageWithId>>),
               !.calls.pending[chatId] =
                  Some([ variables |-> newMessage, previousMessages |-> previousMessages,
                         optimisticMessage |-> messageWithId ])]

\* addMessage (mutateAsync) up to the end of onMutate; cancelQueries ends a
\* fetch that is running.
addMessageOnMutate(s, chatId, newMessage) ==
  LET previousMessages == OrEmpty(s.queries.messages[chatId])
      counter == s.calls.counter[chatId] + 1
      optimisticId == OptimisticId(chatId, s.clock, counter)
      messageWithId == [newMessage EXCEPT !.id = optimisticId, !.status = "sending",
                                          !.localId = optimisticId]
  IN [s EXCEPT !.calls.counter[chatId] = counter,
               !.queries.fetch[chatId] = NoFetch,
               !.queries.messages[chatId] = Some(Append(previousMessages, messageWithId)),
               !.calls.pending[chatId] =
                  Some([ variables |-> newMessage, previousMessages |-> previousMessages,
                         optimisticMessage |-> messageWithId ])]

\* addMessage from mutationFn to its return: mutationFn builds the message it
\* returns, onSuccess persists the cached list. mutationFn does not throw, so
\* onError is not taken.
addMessageSettle(s, chatId) ==
  LET newMessage == s.calls.pending[chatId][1].variables
      counter == s.calls.counter[chatId] + 1
      optimisticId == OptimisticId(chatId, s.clock, counter)
      messageWithId == [newMessage EXCEPT !.id = optimisticId, !.status = "sending",
                                          !.localId = optimisticId]
  IN [s EXCEPT !.calls.counter[chatId] = counter,
               !.storage.messages[chatId] = Some(OrEmpty(s.queries.messages[chatId])),
               !.calls.pending[chatId] = None,
               !.calls.known = @ \cup {messageWithId.id},
               !.calls.last = [NoCall EXCEPT !.op = "addMessage", !.chat = chatId,
                                             !.result = messageWithId]]

\* serverId = NoId stands for an absent serverId.
updateMessageStatus(s, chatId, messageId, status, serverId) ==
  LET currentMessages == OrEmpty(s.queries.messages[chatId])
      updatedMessages ==
        [i \in 1..Len(currentMessages) |->
           IF currentMessages[i].id = messageId \/ currentMessages[i].localId = messageId
           THEN [currentMessages[i] EXCEPT
                   !.status = status,
                   !.id = IF serverId # NoId THEN serverId ELSE @]
           ELSE currentMessages[i]]
  IN [s EXCEPT !.queries.messages[chatId] = Some(updatedMessages),
               !.storage.messages[chatId] = Some(updatedMessages),
               !.calls.last = [NoCall EXCEPT !.op = "updateMessageStatus", !.chat = chatId,
                                             !.id = messageId, !.status = status,
                                             !.serverId = serverId]]

addAIResponse(s, chatId, response) ==
  LET aiMessage == [ id |-> AiId(chatId, s.clock), text |-> response, isUser |-> FALSE,
                     status |-> "delivered", localId |-> NoId ]
      updatedMessages == Append(OrEmpty(s.queries.messages[chatId]), aiMessage)
  IN [s EXCEPT !.queries.messages[chatId] = Some(updatedMessages),
               !.storage.messages[chatId] = Some(updatedMessages),
               !.calls.known = @ \cup {aiMessage.id},
               !.calls.last = [NoCall EXCEPT !.op = "addAIResponse", !.chat = chatId,
                                             !.result = aiMessage]]

\* ------------------------------------------------ ChatScreen.sendMessage
\* sendMessage up to its await of addMessage: the optimistic insert.
screenSendMessage(s, chatId, text) ==
  addMessageOnMutate(s, chatId, NewUserMessage(text))

\* sendMessage from the return of addMessage: the payload is written to the
\* screen's socket if it is OPEN (open), and the status of the returned
\* message is updated.
screenSendResume(s, chatId, open) ==
  LET s1 == addMessageSettle(s, chatId)
      userMessage == s1.calls.last.result
  IN updateMessageStatus(s1, chatId, userMessage.id,
                         IF open THEN "sent" ELSE "failed", NoId)

\* ------------------------------------------------------------ useChat
\* initializeChat: chatMetadata is the entry of the rendered list.
initializeChat(s, chatId) ==
  IF \E i \in 1..Len(OrEmpty(s.queries.list)) : OrEmpty(s.queries.list)[i].id = chatId
  THEN s
  ELSE addChat(s, ChatMetadataOf(chatId))

\* ---------------------------------------------------------------- steps
NoData == Inbound(FALSE, <<>>, FALSE, NoChat, "none", NoPayload)

\* What the last step was: a call (with its argument and whether it completed
\* without an error the caller can observe) or an event of socket sock.
Call(name, arg, ok) ==
  [ op |-> name, sock |-> NoSocket, code |-> 0, arg |-> arg, ok |-> ok, data |-> NoData ]
SocketEvent(name, k, code, data) ==
  [ op |-> name, sock |-> k, code |-> code, arg |-> "", ok |-> TRUE, data |-> data ]

\* The exploration stops where a handler would exceed the bounds.
WithinBounds(r, limit) ==
  /\ Len(r.readyState) <= limit
  /\ Len(r.messageQueue) <= MaxQueue
  /\ r.reconnectTimers <= MaxTimers

\* One handler ran to completion and left the service as r.
Do(r, op) ==
  /\ ws' = r.ws
  /\ readyState' = r.readyState
  /\ isConnecting' = r.isConnecting
  /\ isServerReady' = r.isServerReady
  /\ reconnectAttempts' = r.reconnectAttempts
  /\ token' = r.token
  /\ queryClient' = r.queryClient
  /\ messageQueue' = r.messageQueue
  /\ currentChatId' = r.currentChatId
  /\ reconnectTimers' = r.reconnectTimers
  /\ timeoutArmed' = r.timeoutArmed
  /\ authed' = r.authed
  /\ hooks' = r.hooks
  /\ cache' = r.cache
  /\ chats' = r.chats
  /\ clock' = r.clock
  /\ apiUrl' = r.apiUrl
  /\ wsUrl' = r.wsUrl
  /\ queries' = r.queries
  /\ storage' = r.storage
  /\ calls' = r.calls
  /\ sent' = r.sent
  /\ emitted' = r.emitted
  /\ scheduled' = r.scheduled
  /\ lastOp' = op

ServiceInit ==
  /\ ws = NoSocket
  /\ readyState = <<>>
  /\ isConnecting = FALSE
  /\ isServerReady = FALSE
  /\ reconnectAttempts = 0
  /\ token = NoToken
  /\ queryClient = FALSE
  /\ messageQueue = <<>>
  /\ currentChatId = NoChat
  /\ reconnectTimers = 0
  /\ timeoutArmed = {}
  /\ authed = {}
  /\ hooks = [h \in Instances |-> NewHook]
  /\ cache = [c \in ChatIds \cup {DefaultChat} |-> <<>>]
  /\ chats = <<>>
  /\ clock = 0
  /\ wsUrl = <<>>
  /\ sent = <<>>
  /\ emitted = <<>>
  /\ scheduled = <<>>
  /\ lastOp = Call("init", "", TRUE)
  /\ queries = NewQueries
  /\ calls = NewCalls

\* A first start: nothing is in storage.
EmptyStorage ==
  [ list |-> None, messages |-> [c \in ChatIds |-> None],
    metadata |-> [c \in ChatIds |-> None] ]

Init ==
  /\ ServiceInit
  /\ apiUrl = DefaultApiUrl
  /\ storage = [ list |-> None, messages |-> [c \in ChatIds |-> None],
                 metadata |-> [c \in ChatIds |-> None] ]

\* A later start: storage holds what earlier runs persisted.
InitCache ==
  /\ ServiceInit
  /\ apiUrl = DefaultApiUrl
  /\ \E l \in PersistedLists, m \in PersistedMessages :
       storage = [ list |-> l, messages |-> m, metadata |-> [c \in ChatIds |-> None] ]

\* A start with any configured API base URL.
InitUrl ==
  /\ ServiceInit
  /\ apiUrl \in ApiUrls
  /\ storage = EmptyStorage

Sockets == 1..Len(readyState)

\* ---- calls on the service
Initialize ==
  \E tok \in Tokens :
    /\ token # tok
    /\ Do(initialize(Cur, tok), Call("initialize", tok, TRUE))

Connect ==
  /\ WithinBounds(connect(Cur), MaxSockets)
  /\ Do(connect(Cur), Call("connect", "", TRUE))

Disconnect ==
  /\ token # NoToken
  /\ Do(disconnect(Cur), Call("disconnect", "", TRUE))

JoinChat ==
  \E c \in JoinChatIds :
    /\ WithinBounds(joinChat(Cur, c), MaxSockets)
    /\ Do(joinChat(Cur, c), Call("joinChat", c, TRUE))

LeaveChat ==
  /\ token # NoToken
  /\ Do(leaveChat(Cur), Call("leaveChat", "", TRUE))

SendSimpleMessage ==
  \E m \in UserTexts :
    /\ token # NoToken
    /\ Do(sendSimpleMessage(Cur, m), Call("sendSimpleMessage", m, TRUE))

SendTyping ==
  \E c \in JoinChatIds, b \in BOOLEAN :
    /\ WithinBounds(sendTyping(Cur, c, b), MaxSockets)
    /\ Do(sendTyping(Cur, c, b), Call("sendTyping", c, TRUE))

\* ---- the hook and the mutation
HookMount(limit) ==
  \E h \in Hooks, tok \in Tokens :
    /\ ~hooks[h].mounted
    /\ WithinBounds(hookEffect(Cur, h, tok), limit)
    /\ Do(hookEffect(Cur, h, tok), Call("hookEffect", h, TRUE))

HookUnmount ==
  \E h \in Hooks :
    /\ hooks[h].listening
    /\ Do(hookCleanup(Cur, h), Call("hookCleanup", h, TRUE))

HookReconnect ==
  \E h \in Hooks :
    /\ hooks[h].listening
    /\ WithinBounds(hookReconnect(Cur, h), MaxSockets)
    /\ Do(hookReconnect(Cur, h), Call("hookReconnect", h, TRUE))

\* Any of the components that use the hook mounts or unmounts.
InstanceMount ==
  \E h \in Instances, tok \in Tokens :
    /\ ~hooks[h].mounted
    /\ WithinBounds(hookEffect(Cur, h, tok), MaxSharedSockets)
    /\ Do(hookEffect(Cur, h, tok), Call("hookEffect", h, TRUE))

InstanceUnmount ==
  \E h \in Instances :
    /\ hooks[h].listening
    /\ Do(hookCleanup(Cur, h), Call("hookCleanup", h, TRUE))

\* The user logs out: the effect's cleanup runs, then the effect of the
\* unauthenticated render.
Logout ==
  \E h \in Hooks :
    /\ hooks[h].listening
    /\ token \in Tokens
    /\ Do(hookEffectUnauthenticated(hookCleanup(Cur, h), h), Call("logout", h, TRUE))

\* Another user logs in: the effect runs with that user's token.
SecondLogin ==
  \E h \in Hooks :
    /\ hooks[h].mounted /\ ~hooks[h].listening
    /\ WithinBounds(hookEffect(Cur, h, SecondToken), MaxLogoutSockets)
    /\ Do(hookEffect(Cur, h, SecondToken), Call("hookEffect", h, TRUE))

\* Typing indicators of the first user's session; the second user sends none.
FirstUserTyping ==
  \E h \in Hooks, c \in JoinChatIds, b \in BOOLEAN :
    /\ hooks[h].listening
    /\ token \in Tokens
    /\ WithinBounds(sendTyping(Cur, c, b), MaxLogoutSockets)
    /\ Do(sendTyping(Cur, c, b), Call("sendTyping", c, TRUE))

\* mutate() of useSendMessage: mutationFn throws when the hook does not report
\* 'connected', and the caller's onError runs.
UseSendMessage ==
  \E h \in Hooks, c \in JoinChatIds, m \in UserTexts :
    /\ hooks[h].listening
    /\ IF hookIsConnected(Cur, h)
       THEN /\ WithinBounds(useSendMessageSuccess(Cur, c, m), MaxSockets)
            /\ Do(useSendMessageSuccess(Cur, c, m), Call("useSendMessage", m, TRUE))
       ELSE Do(Cur, Call("useSendMessage", m, FALSE))

\* startTyping/stopTyping of useTypingIndicator.
UseTyping ==
  \E h \in Hooks, c \in JoinChatIds, b \in BOOLEAN :
    /\ hooks[h].listening
    /\ hookIsConnected(Cur, h)
    /\ WithinBounds(sendTyping(Cur, c, b), MaxSockets)
    /\ Do(sendTyping(Cur, c, b), Call("sendTyping", c, TRUE))

\* useChatRoom: the effect runs when the hook reports 'connected' and the
\* screen's chat is not the one joined; its cleanup runs when the screen goes
\* away or the reported status changes.
UseChatRoomEffect ==
  \E h \in Hooks, c \in JoinChatIds :
    /\ hooks[h].listening
    /\ hookIsConnected(Cur, h)
    /\ c # hooks[h].previousChatId
    /\ WithinBounds(chatRoomEffect(Cur, h, c), MaxSockets)
    /\ Do(chatRoomEffect(Cur, h, c), Call("useChatRoom", c, TRUE))

UseChatRoomCleanup ==
  \E h \in Hooks :
    /\ hooks[h].previousChatId # NoChat
    /\ Do(chatRoomCleanup(Cur, h), Call("useChatRoomCleanup", h, TRUE))

\* useChatRoom's effect on a connected screen that has joined no chat yet.
EnterChat ==
  \E h \in Hooks, c \in ChatIds :
    /\ hooks[h].listening
    /\ hookIsConnected(Cur, h)
    /\ hooks[h].previousChatId = NoChat
    /\ WithinBounds(chatRoomEffect(Cur, h, c), MaxSwitchSockets)
    /\ Do(chatRoomEffect(Cur, h, c), Call("enterChat", c, TRUE))

\* useChatRoom's effect when the screen's chat changes: leaveChat(), then
\* joinChat(c).
SwitchChat ==
  \E h \in Hooks, c \in ChatIds :
    /\ hooks[h].listening
    /\ hookIsConnected(Cur, h)
    /\ hooks[h].previousChatId \notin {NoChat, c}
    /\ WithinBounds(chatRoomEffect(Cur, h, c), MaxSwitchSockets)
    /\ Do(chatRoomEffect(Cur, h, c), Call("switchChat", c, TRUE))

\* ---- socket events. The listeners that connect() and
\* setupWebSocketListeners() attached to socket k run, on the service as it
\* is now. An 'open' or 'error' event also clears the timeout armed with k.
SocketOpen ==
  \E k \in Sockets :
    /\ readyState[k] = "CONNECTING"
    /\ Do(onopen([Cur EXCEPT !.readyState[k] = "OPEN", !.timeoutArmed = @ \ {k}]),
          SocketEvent("onopen", k, 0, NoData))

\* A message event is dispatched only on an OPEN socket, and the server sends
\* its welcome in answer to an authentication frame.
SocketMessage ==
  \E k \in Sockets, data \in SessionInbound :
    /\ readyState[k] = "OPEN"
    /\ k \in authed
    /\ Do(onmessage(Cur, data, NoChat), SocketEvent("onmessage", k, 0, data))

\* A server that answers every authentication frame with a welcome that names
\* no chat: the answer is delivered and the frame is no longer unanswered.
ServerWelcome ==
  \E k \in Sockets :
    /\ readyState[k] = "OPEN"
    /\ k \in authed
    /\ Do([onmessage(Cur, Inbound(TRUE, << <<"Connected", "to", "chat">> >>, FALSE,
                                  NoChat, "none", NoPayload), NoChat)
            EXCEPT !.authed = @ \ {k}],
          SocketEvent("onmessage", k, 0,
                      Inbound(TRUE, << <<"Connected", "to", "chat">> >>, FALSE,
                              NoChat, "none", NoPayload)))

\* The connection failed or broke: the socket is CLOSED, its error event and
\* then its close event (abnormal closure) are dispatched in one task.
SocketFail ==
  \E k \in Sockets :
    /\ readyState[k] \in {"CONNECTING", "OPEN"}
    /\ WithinBounds(
         onclose(onerror([Cur EXCEPT !.readyState[k] = "CLOSED", !.timeoutArmed = @ \ {k},
                                     !.authed = @ \ {k}]),
                 CLOSE_ABNORMAL), Len(readyState))
    /\ Do(onclose(onerror([Cur EXCEPT !.readyState[k] = "CLOSED", !.timeoutArmed = @ \ {k},
                                     !.authed = @ \ {k}]),
                  CLOSE_ABNORMAL),
          SocketEvent("onerror+onclose", k, CLOSE_ABNORMAL, NoData))

\* The close event of a socket that the peer closed (OPEN) or that the
\* service closed itself (CLOSING); the code is the peer's or the platform's.
SocketClose ==
  \E k \in Sockets, code \in CloseCodes :
    /\ readyState[k] \in {"OPEN", "CLOSING"}
    /\ WithinBounds(onclose([Cur EXCEPT !.readyState[k] = "CLOSED", !.authed = @ \ {k}], code), Len(readyState))
    /\ Do(onclose([Cur EXCEPT !.readyState[k] = "CLOSED", !.authed = @ \ {k}], code),
          SocketEvent("onclose", k, code, NoData))

\* The close event of a socket that the service closed itself.
SocketClosed ==
  \E k \in Sockets, code \in CloseCodes :
    /\ readyState[k] = "CLOSING"
    /\ WithinBounds(onclose([Cur EXCEPT !.readyState[k] = "CLOSED", !.authed = @ \ {k}], code), Len(readyState))
    /\ Do(onclose([Cur EXCEPT !.readyState[k] = "CLOSED", !.authed = @ \ {k}], code),
          SocketEvent("onclose", k, code, NoData))

\* ---- timers and the platform
ConnectionTimeout ==
  \E k \in timeoutArmed :
    /\ WithinBounds(connectionTimeout([Cur EXCEPT !.timeoutArmed = @ \ {k}]), Len(readyState))
    /\ Do(connectionTimeout([Cur EXCEPT !.timeoutArmed = @ \ {k}]),
          SocketEvent("connectionTimeout", k, 0, NoData))

ReconnectTimer(limit) ==
  /\ reconnectTimers > 0
  /\ WithinBounds(reconnectTimer([Cur EXCEPT !.reconnectTimers = @ - 1]), limit)
  /\ Do(reconnectTimer([Cur EXCEPT !.reconnectTimers = @ - 1]),
        Call("reconnectTimer", "", TRUE))

NetworkOnline ==
  /\ WithinBounds(connect(Cur), MaxSockets)
  /\ Do(connect(Cur), Call("online", "", TRUE))

\* ---- the chat cache hooks. A call runs up to its first await that the
\* model keeps apart; what follows the await is a step of its own.
LoadChatList ==
  /\ queries.list = None
  /\ Do(loadChatList(Cur), Call("loadChatList", "", TRUE))

LoadMessages ==
  \E c \in ChatIds :
    /\ queries.messages[c] = None
    /\ calls.pending[c] = None
    /\ Do(loadMessages(Cur, c), Call("loadMessages", c, TRUE))

FetchMessages ==
  \E c \in OpenChats :
    /\ queries.messages[c] = None
    /\ queries.fetch[c].status = "idle"
    /\ calls.pending[c] = None
    /\ Do(fetchMessages(Cur, c), Call("fetchMessages", c, TRUE))

ResolveMessages ==
  \E c \in OpenChats :
    /\ queries.fetch[c].status = "fetching"
    /\ Do(resolveMessages(Cur, c), Call("resolveMessages", c, TRUE))

InitializeChat ==
  \E c \in ChatIds :
    /\ initializeChat(Cur, c) # Cur
    /\ Do(initializeChat(Cur, c), Call("initializeChat", c, TRUE))

DeleteChatList ==
  \E c \in ChatIds :
    /\ c \notin calls.deleting
    /\ Do(deleteChatList(Cur, c), Call("deleteChat", c, TRUE))

DeleteChatCleanup ==
  \E c \in calls.deleting :
    Do(deleteChatCleanup(Cur, c), Call("deleteChatCleanup", c, TRUE))

AddMessageOnMutate ==
  \E c \in OpenChats :
    /\ calls.pending[c] = None
    /\ calls.counter[c] < 2 * MaxAdds
    /\ Len(OrEmpty(queries.messages[c])) < MaxList
    /\ Do(addMessageOnMutate(Cur, c, NewUserMessage("hi")), Call("addMessage", c, TRUE))

AddMessageSettle ==
  \E c \in OpenChats :
    /\ calls.pending[c] # None
    /\ Do(addMessageSettle(Cur, c), Call("addMessageSettle", c, TRUE))

UpdateMessageStatus ==
  \E c \in OpenChats, id \in calls.known, st \in UpdateStatuses, sid \in ServerIds \cup {NoId} :
    Do(updateMessageStatus(Cur, c, id, st, sid), Call("updateMessageStatus", c, TRUE))

AddAIResponse ==
  \E c \in OpenChats :
    /\ Len(OrEmpty(queries.messages[c])) < MaxList
    /\ Do(addAIResponse(Cur, c, "Hello"), Call("addAIResponse", c, TRUE))

\* ---- the chat screen's send flow
ScreenSendMessage ==
  \E c \in OpenChats :
    /\ calls.pending[c] = None
    /\ calls.counter[c] < 2 * MaxSends
    /\ Len(OrEmpty(queries.messages[c])) < MaxSendList
    /\ Do(screenSendMessage(Cur, c, "hi"), Call("screenSendMessage", c, TRUE))

\* ok tells whether the screen's socket was OPEN and the payload written.
ScreenSendResume ==
  \E c \in OpenChats, open \in BOOLEAN :
    /\ calls.pending[c] # None
    /\ Do(screenSendResume(Cur, c, open), Call("screenSendResume", c, open))

ScreenReply ==
  \E c \in OpenChats :
    /\ Len(OrEmpty(queries.messages[c])) < MaxSendList
    /\ Do(addAIResponse(Cur, c, "Hello"), Call("addAIResponse", c, TRUE))

\* ---- inbound frames of every shape, on an open authenticated socket
\* A frame is a text: one that JSON.parse accepts, with the value it parses to,
\* or one that makes JSON.parse throw.
Frame(d) == [ json |-> TRUE, data |-> d ]
BadFrame == [ json |-> FALSE, data |-> NoData ]
\* The payloads the server of SpecInbound sends: replies with no element, a
\* plain text or a welcome text, with and without the error flag and a chat
\* id, and every legacy payload.
FrameData ==
  { d \in ReplyData : d.chatId \in {NoChat, "c1"} /\ d.reply # << <<>> >> } \cup LegacyData
InboundFrames == { Frame(d) : d \in FrameData } \cup {BadFrame}

\* The whole message listener: JSON.parse inside try/catch, then onmessage.
onmessageEvent(s, frame, url) ==
  IF frame.json THEN onmessage(s, frame.data, url) ELSE s

SocketData ==
  \E k \in Sockets, frame \in InboundFrames :
    /\ readyState[k] = "OPEN"
    /\ k \in authed
    /\ Do(onmessageEvent(Cur, frame, NoChat),
          [SocketEvent("onmessage", k, 0, frame.data) EXCEPT !.ok = frame.json])

\* A millisecond passes.
Tick ==
  /\ clock < MaxClock
  /\ Do([Cur EXCEPT !.clock = @ + 1], Call("tick", "", TRUE))

\* ---- the service under arbitrary calls of its public methods
Next ==
  \/ Initialize \/ Connect \/ Disconnect \/ JoinChat \/ LeaveChat
  \/ SendSimpleMessage \/ SendTyping
  \/ SocketOpen \/ SocketMessage \/ SocketFail \/ SocketClose
  \/ ConnectionTimeout \/ ReconnectTimer(MaxSockets) \/ NetworkOnline

Spec == Init /\ [][Next]_vars

\* ---- the service as the application drives it: through the hook, the send
\* mutation, the typing indicator and the chat room effect
NextApp ==
  \/ HookMount(MaxSockets) \/ HookUnmount \/ HookReconnect
  \/ UseSendMessage \/ UseTyping \/ UseChatRoomEffect \/ UseChatRoomCleanup
  \/ SocketOpen \/ SocketMessage \/ SocketFail \/ SocketClose
  \/ ConnectionTimeout \/ ReconnectTimer(MaxSockets) \/ NetworkOnline

SpecApp == Init /\ [][NextApp]_vars

\* ---- one mounted hook and a server that never sends a welcome: the session
\* never becomes ready, every socket is created by the hook's effect or by a
\* reconnect timer
NextRetry ==
  \/ HookMount(MaxRetrySockets)
  \/ SocketOpen \/ SocketFail \/ SocketClose
  \/ ConnectionTimeout \/ ReconnectTimer(MaxRetrySockets)

SpecRetry == Init /\ [][NextRetry]_vars

\* ---- one mounted hook, typing indicators, and a server that sends frames of
\* every shape
NextInbound ==
  HookMount(MaxInboundSockets) \/ SendTyping \/ SocketOpen \/ SocketData \/ Tick

SpecInbound == Init /\ [][NextInbound]_vars

\* ---- the chat screen driving useChatMessages for the open chat
NextCache ==
  \/ LoadMessages \/ AddMessageOnMutate \/ AddMessageSettle
  \/ UpdateMessageStatus \/ AddAIResponse \/ Tick

SpecCache == InitCache /\ [][NextCache]_vars

\* ---- the chat list (useChatList) next to a chat screen that receives replies
\* ---- the chat screen sending messages on chat c1. A call that awaits is
\* resumed: the continuation of sendMessage is weakly fair.
NextSend == LoadMessages \/ ScreenSendMessage \/ ScreenSendResume \/ ScreenReply \/ Tick
SpecSend == InitCache /\ [][NextSend]_vars /\ WF_vars(ScreenSendResume)

\* ---- one screen that changes its chat, on a connection that stays up and
\* a server that answers every authentication frame: the socket opens and the
\* answer arrives.
NextSwitch ==
  HookMount(MaxSwitchSockets) \/ SocketOpen \/ ServerWelcome \/ EnterChat \/ SwitchChat
    \/ SendTyping \/ Tick
SpecSwitch ==
  Init /\ [][NextSwitch]_vars /\ WF_vars(SocketOpen) /\ WF_vars(ServerWelcome)

\* ---- two components that use the hook, on a connection that stays up and
\* a server that answers every authentication frame; the events that are due
\* (open, the server's answer, the close of a socket the service closed)
\* arrive.
NextShared ==
  \/ InstanceMount \/ InstanceUnmount
  \/ SocketOpen \/ ServerWelcome \/ SocketClosed \/ ReconnectTimer(MaxSharedSockets)
SpecShared ==
  /\ Init /\ [][NextShared]_vars
  /\ WF_vars(SocketOpen) /\ WF_vars(ServerWelcome) /\ WF_vars(SocketClosed)

\* ---- a user who types, logs out, and a second user who logs in and sends
\* nothing
NextLogout ==
  \/ HookMount(MaxLogoutSockets) \/ FirstUserTyping \/ Logout \/ SecondLogin
  \/ SocketOpen \/ SocketMessage \/ SocketClosed \/ ReconnectTimer(MaxLogoutSockets)
SpecLogout == Init /\ [][NextLogout]_vars

\* ---- the hooks of the open chat c1 while its messages query loads
NextLoad ==
  \/ FetchMessages \/ ResolveMessages
  \/ AddMessageOnMutate \/ AddMessageSettle \/ UpdateMessageStatus \/ AddAIResponse
  \/ Tick
SpecLoad == InitCache /\ [][NextLoad]_vars

\* ---- the service under any configured API base URL
NextUrl == HookMount(MaxUrlSockets) \/ HookUnmount \/ SocketOpen
SpecUrl == InitUrl /\ [][NextUrl]_vars

NextList ==
  \/ LoadChatList \/ LoadMessages \/ InitializeChat
  \/ DeleteChatList \/ DeleteChatCleanup \/ AddAIResponse

SpecList == InitCache /\ [][NextList]_vars

\* ------------------------------------------------------------ properties
Live(k) == readyState[k] \in {"CONNECTING", "OPEN"}
LiveSockets == { k \in Sockets : Live(k) }

\* The service's own fields (the hook's state, the caches and the logs of the
\* last step are not among them).
sessionFields ==
  << ws, readyState, isConnecting, isServerReady, reconnectAttempts, token,
     queryClient, messageQueue, currentChatId, reconnectTimers, timeoutArmed >>

\* Steps that no caller asked for: socket events, timers, the platform.
AutomaticOps ==
  { "onopen", "onmessage", "onerror+onclose", "onclose", "connectionTimeout",
    "reconnectTimer", "online" }

Emitted(name) == \E i \in 1..Len(emitted) : emitted[i].ev = name

\* The frames the last step transmitted, and those it transmitted on socket k.
FramesSent == [i \in 1..Len(sent) |-> sent[i].frame]
QueueFrames(q) == [i \in 1..Len(q) |-> QueuedFrame(q[i])]

\* C1: at most one socket created by the service is CONNECTING or OPEN at any
\* time.
C1_AtMostOneLiveSocket == Cardinality(LiveSockets) <= 1

\* disconnect() has returned and no connect() or joinChat() has created a
\* socket since: only disconnect() sets ws to null once a socket exists.
AfterDisconnect == ws = NoSocket /\ Len(readyState) > 0

\* C2: after disconnect(), until a caller invokes connect() or joinChat(), no
\* automatic step (reconnect timer, late close event, network-online event)
\* creates a socket or sends a frame.
C2_NoRetryAfterDisconnect ==
  [][ (AfterDisconnect /\ lastOp'.op \in AutomaticOps)
        => (Len(readyState') = Len(readyState) /\ sent' = <<>>) ]_vars

\* C3: connect() called while the current socket is CONNECTING or OPEN leaves
\* every field of the session unchanged and sends nothing.
C3_ConnectIsNoOpWhileLive ==
  [][ (lastOp'.op = "connect" /\ ws # NoSocket /\ Live(ws))
        => (UNCHANGED sessionFields /\ sent' = <<>>) ]_vars

Ready == isReadyToSend(Cur)

\* C4: a user message submitted while the session is not ready is transmitted
\* or queued by the call, or the call ends in an error the caller observes.
C4_NoSilentDrop ==
  [][ (lastOp'.op \in {"sendSimpleMessage", "useSendMessage"} /\ ~Ready /\ lastOp'.ok)
        => \/ \E i \in 1..Len(sent') : sent'[i].frame.kind = "simple"
           \/ Len(messageQueue') > Len(messageQueue) ]_vars

\* C5: the step in which a welcome makes the session ready transmits the
\* whole queue in order, each payload once, and empties it; and no step takes
\* a payload out of the queue without transmitting it.
C5_QueueFlushedInOrder ==
  [][ /\ (lastOp'.op = "onmessage" /\ Emitted("connected")' /\ Ready')
          => (messageQueue' = <<>> /\ FramesSent' = QueueFrames(messageQueue))
      /\ (Len(messageQueue') < Len(messageQueue))
          => FramesSent' = QueueFrames(messageQueue) ]_vars

\* A welcome has just flushed two different queued payloads.
C5_Witness ==
  /\ lastOp.op = "onmessage"
  /\ Emitted("connected")
  /\ Ready
  /\ messageQueue = <<>>
  /\ Len(sent) = 2
  /\ sent[1].frame # sent[2].frame

TheHook == CHOOSE h \in Hooks : TRUE

\* Sockets created by reconnect timers in a run of SpecRetry: all but the
\* first, which the hook's effect created.
AutoReconnects == IF Len(readyState) = 0 THEN 0 ELSE Len(readyState) - 1

\* C6: when the fifth automatic reconnect attempt has failed and the attempts
\* are used up (max_reconnect_attempts_reached is emitted), the hook reports
\* 'error', reconnectAttempts is the maximum and no reconnect timer is pending.
C6_ErrorAfterMaxAttempts ==
  [][ (Emitted("max_reconnect_attempts_reached")'
         /\ AutoReconnects = maxReconnectAttempts)
        => /\ hooks'[TheHook].status = "error"
           /\ reconnectAttempts' = maxReconnectAttempts
           /\ reconnectTimers' = 0 ]_vars

\* C7: when the current socket of a ready session closes with code 1006, the
\* hook reports 'connecting', reconnectAttempts is 1 and the step creates no
\* socket.
C7_AbnormalCloseReconnects ==
  [][ (lastOp'.op = "onclose" /\ lastOp'.code = CLOSE_ABNORMAL /\ lastOp'.sock = ws
         /\ Ready /\ hooks[TheHook].listening)
        => /\ hooks'[TheHook].status = "connecting"
           /\ reconnectAttempts' = 1
           /\ Len(readyState') = Len(readyState) ]_vars

\* C8: reconnectAttempts is larger after a failed attempt than it was after
\* the failed attempt before it (the value the hook took from that attempt's
\* reconnect_attempt event, 0 once the session was ready or disconnected), is 0
\* right after disconnect() and is 0 whenever the session is ready.
C8_AttemptCounter ==
  /\ [][ (Emitted("reconnect_attempt")' /\ hooks[TheHook].listening)
           => reconnectAttempts' > hooks[TheHook].reconnectAttempts ]_vars
  /\ [](lastOp.op \in {"disconnect", "hookCleanup"} => reconnectAttempts = 0)
  /\ [](Ready => reconnectAttempts = 0)

\* C9: while the session never becomes ready there are at most
\* maxReconnectAttempts automatic reconnections, the first is scheduled with
\* reconnectDelay and each later one with twice the delay of the one before
\* (the hook holds the number of the attempt scheduled before).
C9_BoundedBackoff ==
  /\ [](AutoReconnects <= maxReconnectAttempts)
  /\ [][ scheduled' # <<>>
           => scheduled' = << reconnectDelay * Pow2(hooks[TheHook].reconnectAttempts) >> ]_vars

\* C10: a welcome with chatId c received on the socket opened by connect()
\* makes the session ready, emits 'connected', sets currentChatId to c and
\* transmits the payloads that were queued, leaving none queued.
C10_WelcomeMakesReady ==
  [][ (lastOp'.op = "onmessage" /\ isWelcomeMessage(lastOp'.data.reply[1])
         /\ lastOp'.data.chatId # NoChat)
        => /\ Ready'
           /\ Emitted("connected")'
           /\ currentChatId' = lastOp'.data.chatId
           /\ FramesSent' = QueueFrames(messageQueue)
           /\ messageQueue' = <<>> ]_vars

\* A welcome carrying chat c1 reached a session that had joined another chat
\* and had a payload queued.
C10_Witness ==
  /\ lastOp.op = "onmessage"
  /\ lastOp.data.chatId = "c1"
  /\ lastOp.sock = ws
  /\ Ready
  /\ currentChatId = "c1"
  /\ Len(sent) >= 1
  /\ sent[1].frame.chatId = "c2"

\* C15: an attempt whose socket opened but on which no welcome arrived is still
\* covered by the connection timeout: while the current socket is OPEN and the
\* session is not ready, the timeout armed with that socket is pending.
C15_TimeoutCoversOpenSocket ==
  (ws # NoSocket /\ readyState[ws] = "OPEN" /\ ~isServerReady) => ws \in timeoutArmed

\* C16: a sendSimpleMessage or sendTyping call made while the session is not
\* ready transmits nothing but authentication frames and appends its payload
\* to the queue.
C16_NotReadyCallsAreQueued ==
  [][ (lastOp'.op \in {"sendSimpleMessage", "sendTyping"} /\ ~Ready)
        => /\ \A i \in 1..Len(sent') : sent'[i].frame.kind = "auth"
           /\ Len(messageQueue') = Len(messageQueue) + 1 ]_vars

\* The messages of the cache entry ['chat', c], none when there is no entry.
MessagesOf(ch, c) == IF ch[c] = <<>> THEN <<>> ELSE ch[c][1].messages

\* C11: merging a message into its chat's cache entry adds at most one message
\* and never a second one with an id the list already holds; delivering an id
\* that is already in the list leaves the list unchanged, and with no entry
\* for the chat the merge creates one that holds exactly that message.
C11_MergeIsIdempotent ==
  [][ (lastOp'.op = "onmessage" /\ lastOp'.data.type = "message"
         /\ lastOp'.data.payload # NoPayload)
        => LET m == lastOp'.data.payload
               old == MessagesOf(cache, m.chatId)
               new == MessagesOf(cache', m.chatId)
           IN /\ Len(new) <= Len(old) + 1
              /\ Cardinality({ i \in 1..Len(new) : new[i].id = m.id }) = 1
              /\ (\E i \in 1..Len(old) : old[i].id = m.id) => new = old
              /\ cache[m.chatId] = <<>>
                   => new = << [ id |-> m.id, content |-> m.content,
                                 role |-> m.type, chatId |-> m.chatId ] >> ]_vars

\* The message Id("m", 0) was delivered again to a chat whose list already
\* held it, in front of a later message.
C11_Witness ==
  /\ lastOp.op = "onmessage"
  /\ lastOp.data.type = "message"
  /\ Len(MessagesOf(cache, "c1")) = 2
  /\ MessagesOf(cache, "c1")[1].id = lastOp.data.payload.id
  /\ MessagesOf(cache, "c1")[2].id # lastOp.data.payload.id

\* An inbound frame that parsed, as the last step.
Received == lastOp.op = "onmessage" /\ lastOp.ok

\* C17: a reply payload with the error flag and a non-empty reply array causes
\* an 'error' event and changes neither the caches, the sockets, the
\* readiness, the current chat id nor the queue, whatever its text.
C17_ErrorReplyOnlyEmitsError ==
  [][ (Received' /\ lastOp'.data.error /\ lastOp'.data.hasReply
         /\ Len(lastOp'.data.reply) > 0)
        => /\ Emitted("error")'
           /\ UNCHANGED << cache, chats, readyState, isServerReady, currentChatId,
                           messageQueue >> ]_vars

\* The chat id C18 resolves for a payload: its own, else the current one, else
\* the default chat.
ResolvedChat(d, current) ==
  IF d.chatId # NoChat THEN d.chatId ELSE OrDefault(current)

\* C18: a reply without the error flag and with a non-empty reply array that
\* arrives while the session is ready appends exactly one assistant message,
\* whose content is the first element, to the cache entry of the resolved chat
\* (stated for first elements that are not welcome texts).
C18_ReplyIsAppendedOnce ==
  [][ (Received' /\ Ready /\ ~lastOp'.data.error /\ lastOp'.data.hasReply
         /\ Len(lastOp'.data.reply) > 0
         /\ ~isWelcomeMessage(lastOp'.data.reply[1]))
        => LET c == ResolvedChat(lastOp'.data, currentChatId)
               old == MessagesOf(cache, c)
               new == MessagesOf(cache', c)
           IN /\ Len(new) = Len(old) + 1
              /\ SubSeq(new, 1, Len(old)) = old
              /\ new[Len(new)].role = "assistant"
              /\ new[Len(new)].content = lastOp'.data.reply[1] ]_vars

MessagesIn(q, c) == OrEmpty(q.messages[c])
\* The cached chat list without the entries of chat c.
OtherChats(c) == SelectSeq(OrEmpty(queries.list), LAMBDA chat : chat.id # c)

\* C12: the message addMessage returns is the message it inserted into the
\* list (same id), so a following updateMessageStatus(returned.id, st) sets
\* the status of the inserted entry to st.
C12_ReturnedMessageIsInserted ==
  /\ [][ lastOp'.op = "addMessageSettle"
           => calls'.last.result.id
                = calls.pending[lastOp'.arg][1].optimisticMessage.id ]_vars
  /\ [][ (lastOp'.op = "updateMessageStatus" /\ calls'.last.id.p = "optimistic")
           => \E i \in 1..Len(MessagesIn(queries', lastOp'.arg)) :
                /\ MessagesIn(queries', lastOp'.arg)[i].localId.p = "optimistic"
                /\ MessagesIn(queries', lastOp'.arg)[i].status = calls'.last.status ]_vars

C20_DeliveredMessagesAreImmutable ==
  [][ lastOp'.op \in {"updateMessageStatus", "addMessage", "addMessageSettle",
                      "addAIResponse"}
        => \A c \in ChatIds :
             \A i \in 1..Len(MessagesIn(queries, c)) :
               /\ i <= Len(MessagesIn(queries', c))
               /\ MessagesIn(queries, c)[i].status = "delivered"
                    => MessagesIn(queries', c)[i] = MessagesIn(queries, c)[i]
               /\ (lastOp'.op = "updateMessageStatus"
                     /\ MessagesIn(queries, c)[i].status # "delivered")
                    => /\ MessagesIn(queries', c)[i].text = MessagesIn(queries, c)[i].text
                       /\ MessagesIn(queries', c)[i].isUser = MessagesIn(queries, c)[i].isUser
                       /\ MessagesIn(queries', c)[i].localId = MessagesIn(queries, c)[i].localId
                       /\ calls'.last.serverId = NoId
                            => MessagesIn(queries', c)[i].id = MessagesIn(queries, c)[i].id ]_vars

\* C21: in every reachable state no two messages of a chat's cached message
\* list have the same id.
C21_MessageIdsAreUnique ==
  \A c \in ChatIds :
    \A i, j \in 1..Len(MessagesIn(queries, c)) :
      i # j => MessagesIn(queries, c)[i].id # MessagesIn(queries, c)[j].id

\* C22: the URL of every socket the service creates is the configured base
\* URL with the scheme http:// replaced by ws:// and https:// by wss://,
\* followed by the chat path; a base URL with the https scheme gives a URL
\* with the wss scheme.
C22_SchemeIsMapped ==
  (ws # NoSocket /\ Len(apiUrl) > 0)
    => /\ apiUrl[1] = "http://" => wsUrl = <<"ws://">> \o Tail(apiUrl) \o <<"/ws/chat">>
       /\ apiUrl[1] = "https://" => wsUrl = <<"wss://">> \o Tail(apiUrl) \o <<"/ws/chat">>

\* The optimistic user messages of chat c that still have status sending.
StillSending(c) ==
  { i \in 1..Len(MessagesIn(queries, c)) :
      /\ MessagesIn(queries, c)[i].localId.p = "optimistic"
      /\ MessagesIn(queries, c)[i].status = "sending" }

\* C23: in the chat screen's send flow every optimistic user message
\* eventually leaves status sending (it becomes sent when the payload was
\* written to an open socket, failed when the socket was not open).
C23_SendingIsLeft ==
  \A c \in OpenChats : (StillSending(c) # {}) ~> (StillSending(c) = {})

\* C24: while the service has a current socket, the close event, the error
\* event and the connection timeout of another socket leave isConnecting and
\* isServerReady as they are, do not close the current socket and schedule no
\* reconnect.
C24_StaleEventsAreIgnored ==
  [][ (lastOp'.op \in {"onclose", "onerror+onclose", "connectionTimeout"}
         /\ ws # NoSocket /\ lastOp'.sock # ws)
        => /\ isConnecting' = isConnecting
           /\ isServerReady' = isServerReady
           /\ readyState'[ws] = readyState[ws]
           /\ scheduled' = <<>> ]_vars

\* C25: after useChatRoom has switched a ready session to chat c (leaveChat,
\* then joinChat(c)), the session eventually is ready again with
\* currentChatId = c, unless the screen has changed its chat once more.
C25_SwitchLeadsBackToReady ==
  \A c \in ChatIds :
    (lastOp.op = "switchChat" /\ lastOp.arg = c)
      ~> \/ isReadyToSend(Cur) /\ currentChatId = c
         \/ hooks[TheHook].previousChatId # c

\* How often the last step emitted the event name.
TimesEmitted(name) == Cardinality({ i \in 1..Len(emitted) : emitted[i].ev = name })

\* C26: below the limit of attempts, each failed connection attempt of the
\* current socket (error with abnormal close, abnormal close of an open
\* socket, connection timeout) adds exactly one to reconnectAttempts, emits
\* exactly one reconnect_attempt and arms exactly one reconnect timer: the
\* event that reports the failure does so, and the close event of a socket
\* that the timeout has closed adds nothing.
C26_OneRetryPerFailedAttempt ==
  /\ [][ (/\ reconnectAttempts < maxReconnectAttempts
          /\ lastOp'.sock = ws
          /\ \/ lastOp'.op = "onerror+onclose"
             \/ lastOp'.op = "onclose" /\ lastOp'.code = CLOSE_ABNORMAL
                  /\ readyState[ws] = "OPEN"
             \/ lastOp'.op = "connectionTimeout" /\ readyState[ws] = "CONNECTING")
           => /\ reconnectAttempts' = reconnectAttempts + 1
              /\ TimesEmitted("reconnect_attempt")' = 1
              /\ Len(scheduled') = 1 ]_vars
  /\ [][ (lastOp'.op = "onclose" /\ lastOp'.sock = ws /\ readyState[ws] = "CLOSING")
           => /\ reconnectAttempts' = reconnectAttempts
              /\ TimesEmitted("reconnect_attempt")' = 0
              /\ scheduled' = <<>> ]_vars

\* C27: while another component using the hook is mounted and authenticated,
\* the unmounting of a component does not disconnect the shared session: the
\* current socket, its state, the server's readiness and the current chat
\* stay as they are.
C27_UnmountKeepsSharedSession ==
  [][ (lastOp'.op = "hookCleanup"
         /\ \E h \in Instances : h # lastOp'.arg /\ hooks[h].listening)
        => /\ ws' = ws
           /\ readyState' = readyState
           /\ isServerReady' = isServerReady
           /\ currentChatId' = currentChatId ]_vars

\* C28: a mounted instance of the hook eventually reports a service that is
\* ready and stays ready: status connected and isReadyToSend true.
C28_InstanceReportsReady ==
  \A h \in Instances :
    (hooks[h].listening /\ isReadyToSend(Cur))
      ~> \/ hookIsReadyToSend(Cur, h)
         \/ ~isReadyToSend(Cur)
         \/ ~hooks[h].listening

\* C29: a payload queued before disconnect() is not transmitted by a later
\* session: the second user sends no payload, so no step of the session
\* authenticated with the second user's token transmits a queued payload.
C29_QueueDoesNotOutliveSession ==
  [][ token' = SecondToken
        => \A i \in 1..Len(sent') : sent'[i].frame.kind # "typing" ]_vars

\* No call on chat c is waiting for storage or for the query.
Settled(c) == calls.pending[c] = None /\ queries.fetch[c].status = "idle"

\* C30: once the initial load and every call have completed, the persisted
\* message list of the chat equals its cached list, and every assistant
\* message that was appended is in both.
C30_CacheAndStoreConverge ==
  \A c \in OpenChats :
    (Settled(c) /\ queries.messages[c] # None)
      => /\ OrEmpty(storage.messages[c]) = MessagesIn(queries, c)
         /\ \A id \in calls.known :
              id.p = "ai"
                => \E i \in 1..Len(MessagesIn(queries, c)) :
                     \/ MessagesIn(queries, c)[i].id = id
                     \/ /\ MessagesIn(queries, c)[i].id \in ServerIds
                        /\ ~MessagesIn(queries, c)[i].isUser

====
